---- MODULE Spec2Model ----
(***************************************************************************)
(* A model of nouzdb: the memtable with its write-ahead logs               *)
(* (src/src/memtable.rs), the segment files with their sparse index        *)
(* (src/src/segment.rs) and the Database that owns them, its flush threads,*)
(* its merging task, its Drop, and crash followed by reopen                *)
(* (src/src/database.rs).                                                  *)
(*                                                                         *)
(* Keys are single bytes 1..NKeys, compared as the bytes they are. The     *)
(* value v is the byte string of v bytes "x".."x", so values differ in     *)
(* length. A file is the sequence of the records written to it; a record   *)
(* of a segment file is <<key, value>> and takes KeyLen + ValLen + 2 bytes *)
(* (a comma and a line terminator), which is what the byte offsets of the  *)
(* sparse index are computed from.                                         *)
(***************************************************************************)
EXTENDS Integers, Sequences, FiniteSets, TLC

\* ---------------------------------------------------------------- bounds
NKeys == 2
NVals == 2
MaxSets == 3
MaxMerges == 1
MaxCrashes == 1
MaxDrops == 1
MaxFaults == 1

Keys == 1..NKeys
Values == 1..NVals

\* Option<T>: None is <<>>, Some(x) is <<x>>.
None == <<>>
Some(x) == <<x>>
IsSome(o) == o # <<>>
Unwrap(o) == o[1]

\* A BTreeMap is a function whose domain is the set of its keys.
EmptyTree == <<>>
TreeGet(tree, key) == IF key \in DOMAIN tree THEN Some(tree[key]) ELSE None
TreeInsert(tree, key, value) ==
    [k \in (DOMAIN tree) \cup {key} |-> IF k = key THEN value ELSE tree[k]]
TreeRemove(tree, key) == [k \in (DOMAIN tree) \ {key} |-> tree[k]]

\* The bytes of a key and of a value. The keys of the store are the single
\* bytes 1..NKeys. Two more byte strings occur as the first field of what is
\* left of an overwritten record (see Fragment): the empty string, key 0, and
\* the string of r bytes 120, key 119 + r; the order of these numbers is the
\* order of the byte strings.
KeyLen(key) == IF key = 0 THEN 0 ELSE IF key < 120 THEN 1 ELSE key - 119
ValLen(value) == value

RECURSIVE SortAsc(_)
SortAsc(S) ==
    IF S = {} THEN <<>>
    ELSE LET m == CHOOSE x \in S : \A y \in S : x <= y
         IN  <<m>> \o SortAsc(S \ {m})

Max(S) == CHOOSE x \in S : \A y \in S : y <= x

\* ------------------------------------------------------------- segment.rs
\* The bytes one record of a segment file takes: key , value \n, and
\* key \n for a record of one field. The record <<>> is a line that holds
\* its terminator alone, which the csv readers pass over: no record to them.
RecLen(record) ==
    IF Len(record) >= 2 THEN KeyLen(record[1]) + 1 + ValLen(record[2]) + 1
    ELSE IF Len(record) = 1 THEN KeyLen(record[1]) + 1
    ELSE 1

\* record_to_kv: the key and the value of a record of at least two fields.
record_to_kv(record) ==
    IF Len(record) >= 2 THEN Some(<<record[1], record[2]>>) ELSE None

\* RawSegment::write_to_path: one record per entry of the tree, in the
\* ascending key order of the BTreeMap's iterator.
RecordsOfTree(tree) ==
    LET ks == SortAsc(DOMAIN tree)
    IN  [i \in 1..Len(ks) |-> <<ks[i], tree[ks[i]]>>]

\* Segment::initialize_index: each turn of the loop takes `offset`, the
\* reader's position (the byte after the record read last, `start`), reads
\* the next record, and enters it in the index when the offset is block_size
\* or more past last_block_offset. The read after the last record reports no
\* more records and leaves the record empty, so that it has no key.
RECURSIVE IndexLoop(_, _, _, _, _, _, _)
IndexLoop(file, bs, i, start, pos, last_block_offset, index) ==
    LET more == i <= Len(file)
        hit == start - last_block_offset >= bs
        last2 == IF hit THEN start ELSE last_block_offset
    IN  IF ~more THEN index
        ELSE IF file[i] = <<>>
        THEN IndexLoop(file, bs, i + 1, start, pos + 1, last_block_offset, index)
        ELSE IndexLoop(file, bs, i + 1, pos + RecLen(file[i]), pos + RecLen(file[i]),
                       last2,
                       IF hit THEN TreeInsert(index, file[i][1], start) ELSE index)

initialize_index(file, bs) == Some(IndexLoop(file, bs, 1, 0, 0, 0, EmptyTree))

\* The byte offset at which record i of a file starts.
RECURSIVE OffsetOf(_, _)
OffsetOf(file, i) ==
    IF i <= 1 THEN 0 ELSE OffsetOf(file, i - 1) + RecLen(file[i - 1])

\* Segment::get, lines 134-142: where the scan starts. With an index, the
\* offset of the greatest index key <= key, and no offset when there is none.
SegmentSeek(index, key) ==
    IF IsSome(index)
    THEN LET below == {k \in DOMAIN Unwrap(index) : k <= key}
         IN  IF below = {} THEN None ELSE Some(Unwrap(index)[Max(below)])
    ELSE Some(0)

\* Segment::get, lines 143-154, over Segment::records: the reader starts at
\* the offset and is not flexible, so a record whose number of fields is not
\* that of the first record read is an error, which the loop passes over; the
\* result is the value of the first record left whose key is the key looked up.
SegmentScan(file, offset, key) ==
    LET from == {i \in 1..Len(file) : OffsetOf(file, i) >= offset}
        real == {i \in from : file[i] # <<>>}
        first == CHOOSE i \in real : \A j \in real : i <= j
        at == {i \in real :
                 /\ Len(file[i]) = Len(file[first])
                 /\ IsSome(record_to_kv(file[i]))
                 /\ Unwrap(record_to_kv(file[i]))[1] = key}
    IN  IF at = {} THEN None
        ELSE Some(Unwrap(record_to_kv(file[CHOOSE i \in at : \A j \in at : i <= j]))[2])

SegmentGet(index, file, key) ==
    LET offset == SegmentSeek(index, key)
    IN  IF IsSome(offset) THEN SegmentScan(file, Unwrap(offset), key) ELSE None

\* ------------------------------------------------------------ memtable.rs
\* The bytes of a key and of a value: key k is the byte k, value v is v
\* times the byte 120.
KeyBytes(key) == <<key>>
RECURSIVE ValBytes(_)
ValBytes(value) == IF value = 0 THEN <<>> ELSE <<120>> \o ValBytes(value - 1)

\* CRC_32_AIXM: width 32, poly 0x814141AB, init 0, no reflection, no final
\* xor. A 32 bit word is the sequence of its bits, most significant first.
CrcWidth == 32
CrcPoly ==
    <<1,0,0,0,0,0,0,1, 0,1,0,0,0,0,0,1, 0,1,0,0,0,0,0,1, 1,0,1,0,1,0,1,1>>
Zero32 == [i \in 1..CrcWidth |-> 0]
Xor32(a, b) == [i \in 1..CrcWidth |-> (a[i] + b[i]) % 2]
Shl32(a) == [i \in 1..CrcWidth |-> IF i < CrcWidth THEN a[i + 1] ELSE 0]
ByteBit(byte, i) == (byte \div (2 ^ (8 - i))) % 2
ByteHigh32(byte) == [i \in 1..CrcWidth |-> IF i <= 8 THEN ByteBit(byte, i) ELSE 0]
RECURSIVE CrcShift(_, _)
CrcShift(crc, n) ==
    IF n = 0 THEN crc
    ELSE CrcShift(IF crc[1] = 1 THEN Xor32(Shl32(crc), CrcPoly) ELSE Shl32(crc),
                  n - 1)
\* digest.update over a byte string
RECURSIVE CrcUpdate(_, _)
CrcUpdate(crc, bytes) ==
    IF bytes = <<>> THEN crc
    ELSE CrcUpdate(CrcShift(Xor32(crc, ByteHigh32(Head(bytes))), 8), Tail(bytes))

\* u32::to_le_bytes: the four bytes, least significant first.
RECURSIVE BitsToNat(_)
BitsToNat(bits) ==
    IF bits = <<>> THEN 0
    ELSE 2 * BitsToNat(SubSeq(bits, 1, Len(bits) - 1)) + bits[Len(bits)]
to_le_bytes(word) ==
    [j \in 1..4 |-> BitsToNat(SubSeq(word, 8 * (4 - j) + 1, 8 * (4 - j) + 8))]
\* Buf::get_u32_be in place of get_u32_le: the four bytes read most
\* significant first.
get_u32_be(field) ==
    [i \in 1..CrcWidth |-> ByteBit(field[((i - 1) \div 8) + 1], ((i - 1) % 8) + 1)]

\* Buf::get_u32_le on a field of at least four bytes.
get_u32_le(field) ==
    [i \in 1..CrcWidth |->
        ByteBit(field[4 - ((i - 1) \div 8)], ((i - 1) % 8) + 1)]

\* The digest of key || value, computed once per pair: the set of the pairs
\* <<key, value>> with their digests.
DigestTable ==
    {<<kv, CrcUpdate(CrcUpdate(Zero32, KeyBytes(kv[1])), ValBytes(kv[2]))>> :
        kv \in Keys \X (0..NVals)}
Digest(key, value) == (CHOOSE row \in DigestTable : row[1] = <<key, value>>)[2]

\* Memtable::parse_record: the log record of (key, value): the digest's
\* little-endian bytes, the key, the value.
parse_record(key, value) == <<to_le_bytes(Digest(key, value)), key, value>>

\* Memtable::read_record, line 45: get_u32_le is called on the first field
\* before the other fields are looked at, and panics when the field has fewer
\* than four bytes.
ReadPanics(record) == Len(record) >= 1 /\ Len(record[1]) < 4

\* Memtable::read_record: the pair of a record whose stored digest is the
\* digest of its key and value.
read_record(record) ==
    IF Len(record) < 3 THEN None
    ELSE IF get_u32_le(record[1]) = Digest(record[2], record[3])
         THEN Some(<<record[2], record[3]>>)
         ELSE None

\* Memtable::build_tree_from_path: replay a log up to its first record that
\* does not decode. `pos` counts the records replayed, which stands for
\* next_pos, the byte offset just past the last of them; `panic` tells that
\* read_record panicked at the record after them.
RECURSIVE BuildLoop(_, _, _, _)
BuildLoop(file, i, tree, size) ==
    IF i <= Len(file) /\ ReadPanics(file[i])
    THEN [tree |-> tree, pos |-> i - 1, size |-> size, panic |-> TRUE]
    ELSE IF i > Len(file) \/ ~IsSome(read_record(file[i]))
    THEN [tree |-> tree, pos |-> i - 1, size |-> size, panic |-> FALSE]
    ELSE LET key == file[i][2]
             value == file[i][3]
             old == TreeGet(tree, key)
             size2 == (IF IsSome(old) THEN size - ValLen(Unwrap(old))
                       ELSE size + KeyLen(key)) + ValLen(value)
         IN  BuildLoop(file, i + 1, TreeInsert(tree, key, value), size2)

build_tree_from_path(file) == BuildLoop(file, 1, EmptyTree, 0)

\* The name of a log file is its id in decimal; `logs` in Database::new is a
\* BTreeMap<String, PathBuf>, ordered as strings are: byte by byte.
RECURSIVE DecStr(_)
DecStr(n) == IF n < 10 THEN <<n>> ELSE DecStr(n \div 10) \o <<n % 10>>

StrLess(a, b) ==
    \E i \in 1..(Len(a) + 1) :
        /\ \A j \in 1..(i - 1) : j <= Len(b) /\ a[j] = b[j]
        /\ \/ i = Len(a) + 1 /\ Len(b) >= i
           \/ i <= Len(a) /\ i <= Len(b) /\ a[i] < b[i]

\* The ids of the log files in the order of logs.next_back(): greatest name
\* first.
RECURSIVE LogOrder(_)
LogOrder(ids) ==
    IF ids = {} THEN <<>>
    ELSE LET m == CHOOSE x \in ids :
                    \A y \in ids \ {x} : StrLess(DecStr(y), DecStr(x))
         IN  <<m>> \o LogOrder(ids \ {m})

\* Memtable::new over the log files of the directory: the first log of the
\* order is replayed into the active tree and truncated to what was replayed,
\* the second into the frozen tree, the others are removed; with no log, the
\* log 1 is created. `panic` tells that a replay panicked, `truncated` that
\* the active log had been truncated by then.
MemtableNew(dir) ==
    LET ord == LogOrder(DOMAIN dir)
        n == Len(ord)
        act == IF n >= 1 THEN build_tree_from_path(dir[ord[1]])
               ELSE [tree |-> EmptyTree, pos |-> 0, size |-> 0, panic |-> FALSE]
        frz == IF n >= 2 THEN build_tree_from_path(dir[ord[2]]).tree ELSE EmptyTree
        frzPanic == n >= 2 /\ build_tree_from_path(dir[ord[2]]).panic
        aid == IF n >= 1 THEN ord[1] ELSE 1
        kept == IF n >= 2 THEN {ord[1], ord[2]} ELSE {aid}
    IN  [panic |-> act.panic \/ frzPanic,
         truncated |-> ~act.panic,
         active_tree |-> act.tree,
         active_size |-> act.size,
         active_log_id |-> aid,
         freeze_tree |-> IF n >= 2 THEN Some(frz) ELSE None,
         freeze_log_id |-> IF n >= 2 THEN Some(ord[2]) ELSE None,
         segment |-> IF n >= 2 THEN Some(frz) ELSE None,
         logs |-> [id \in kept |->
                     IF id = aid
                     THEN (IF n >= 1 THEN SubSeq(dir[aid], 1, act.pos) ELSE <<>>)
                     ELSE dir[id]]]

\* ------------------------------------------------------------- database.rs
\* OpenOptions::new().create(true).write(true).open(path) followed by writing
\* `records` from the start of the file: the file is not truncated, so what an
\* older file of the same name holds past the bytes written stays in place.
\* A record of that older file cut by the last byte written leaves a
\* fragment: see Fragment.
RECURSIVE FileLen(_)
FileLen(file) == IF file = <<>> THEN 0 ELSE RecLen(Head(file)) + FileLen(Tail(file))

\* What is left of a record once its first `cut` bytes are overwritten
\* (0 < cut < RecLen): a suffix of the key followed by the other fields;
\* ",value", which reads as a record of empty key; a suffix of the value,
\* which reads as a record of one field; or a bare line terminator.
Fragment(record, cut) ==
    LET kl == KeyLen(record[1])
    IN  IF cut < kl THEN << <<119 + (kl - cut)>> \o Tail(record) >>
        ELSE IF Len(record) < 2 THEN << <<>> >>
        ELSE IF cut = kl THEN << <<0, record[2]>> >>
        ELSE IF cut - kl - 1 < ValLen(record[2])
             THEN << <<119 + (ValLen(record[2]) - (cut - kl - 1))>> >>
             ELSE << <<>> >>

RECURSIVE StaleTail(_, _)
StaleTail(old, written) ==
    IF old = <<>> THEN <<>>
    ELSE IF written <= 0 THEN old
    ELSE IF written >= RecLen(Head(old))
         THEN StaleTail(Tail(old), written - RecLen(Head(old)))
         ELSE Fragment(Head(old), written) \o Tail(old)

WriteOver(files, id, records) ==
    IF id \in DOMAIN files
    THEN records \o StaleTail(files[id], FileLen(records))
    ELSE records

FilePut(files, id, file) ==
    [i \in (DOMAIN files) \cup {id} |-> IF i = id THEN file ELSE files[i]]
FileRemove(files, id) == [i \in (DOMAIN files) \ {id} |-> files[i]]

VARIABLES
    \* the data directory
    logs,            \* log id -> the records of <id>.<log_suffix>
    datafiles,       \* segment id -> the records of <id>.<data_suffix>
    tmpfiles,        \* segment id -> the records of <id>.tmp
    \* the options of the DatabaseBuilder
    block_size,
    \* Memtable
    active_tree, freeze_tree, active_size, active_log_id, freeze_log_id,
    log,             \* the id of the log file the writer appends to
    log_buf,         \* the records the writer holds and has not written
    \* Database
    segments,        \* segment id -> Segment (its index; its path is the id)
    max_segment_id,
    id_lock,         \* who holds the max_segment_id mutex
    tasks,           \* the flush threads that have not finished, oldest first
    exiter,          \* whether the exit signal was sent
    \* the merging task
    mpc, m_sid,
    m_readers,       \* the ids of segment_readers
    m_todo,          \* the ids the loop of lines 319-327 has not reached yet
    m_segment,
    \* the thread that owns the Database
    phase,           \* "down", "up", or the step Drop is at
    fpc, g_key, got, d_sid, d_tree,
    \* history
    last,            \* key -> the value of the last set that returned, or 0
    m_view,          \* what get returned for every key when the cycle began
    c_views,         \* at a crash in a flush: get's results without and with it
    nsets, ncrashes, nmerges, ndrops,
    fault,           \* the I/O fault met last, or "none"
    nfaults,
    \* the record codec on its own
    c_in,            \* the pair <<key, value>> put to parse_record
    c_record,        \* the record, as parse_record made it or with one bit flipped
    c_flipped,       \* whether a bit of its digest field was flipped
    c_out,           \* what read_record returned for it
    c_pc,
    \* the memtable's RwLock between the steps: "read" while a get holds its
    \* read guard, "free" otherwise
    mem_lock

disk == <<logs, datafiles, tmpfiles>>
memtable == <<active_tree, freeze_tree, active_size, active_log_id, freeze_log_id,
              log, log_buf>>
database == <<segments, max_segment_id, id_lock, tasks, exiter>>
merger == <<mpc, m_sid, m_readers, m_todo, m_segment>>
owner == <<phase, fpc, g_key, got, d_sid, d_tree>>
history == <<last, m_view, c_views, nsets, ncrashes, nmerges, ndrops, fault, nfaults>>
codec == <<c_in, c_record, c_flipped, c_out, c_pc>>
vars == <<disk, block_size, memtable, database, merger, owner, history, codec,
          mem_lock>>

\* The codec is not exercised.
CodecOff ==
    /\ c_in = <<>> /\ c_record = <<>> /\ c_flipped = FALSE /\ c_out = None
    /\ c_pc = "off"

SwitchMemSize == 2
BlockSize == 4
BlockSizes == {0, BlockSize}

Init ==
    /\ logs = <<>> /\ datafiles = <<>> /\ tmpfiles = <<>>
    /\ block_size \in BlockSizes
    /\ active_tree = EmptyTree /\ freeze_tree = None /\ active_size = 0
    /\ active_log_id = 0 /\ freeze_log_id = None /\ log = 0 /\ log_buf = <<>>
    /\ segments = <<>> /\ max_segment_id = 0 /\ id_lock = "free"
    /\ tasks = <<>> /\ exiter = FALSE
    /\ mpc = "none" /\ m_sid = 0 /\ m_readers = {} /\ m_todo = {}
    /\ m_segment = None
    /\ phase = "down" /\ fpc = "idle" /\ g_key = 0 /\ got = None
    /\ d_sid = 0 /\ d_tree = EmptyTree
    /\ last = [k \in Keys |-> 0] /\ m_view = None /\ c_views = {}
    /\ nsets = 0 /\ ncrashes = 0 /\ nmerges = 0 /\ ndrops = 0
    /\ fault = "none" /\ nfaults = 0
    /\ CodecOff
    /\ mem_lock = "free"

\* The process is not running: nothing is in memory.
MemoryGone ==
    /\ active_tree' = EmptyTree /\ freeze_tree' = None /\ active_size' = 0
    /\ active_log_id' = 0 /\ freeze_log_id' = None /\ log' = 0 /\ log_buf' = <<>>
    /\ segments' = <<>> /\ max_segment_id' = 0 /\ id_lock' = "free"
    /\ tasks' = <<>> /\ exiter' = FALSE
    /\ mpc' = "none" /\ m_sid' = 0 /\ m_readers' = {} /\ m_todo' = {}
    /\ m_segment' = None
    /\ phase' = "down" /\ fpc' = "idle" /\ g_key' = 0 /\ got' = None
    /\ d_sid' = 0 /\ d_tree' = EmptyTree
    /\ mem_lock' = "free"

\* A flush thread spawned by write_new_segment, before it takes the mutex.
NewTask(tree) ==
    [pc |-> "lock", tree |-> tree, sid |-> 0, written |-> 0, index |-> None]

\* Database::new
Open ==
    /\ phase = "down"
    /\ ~MemtableNew(logs).panic
    /\ LET m == MemtableNew(logs)
       IN  /\ logs' = m.logs
           /\ active_tree' = m.active_tree
           /\ freeze_tree' = m.freeze_tree
           /\ active_size' = m.active_size
           /\ active_log_id' = m.active_log_id
           /\ freeze_log_id' = m.freeze_log_id
           /\ log' = m.active_log_id /\ log_buf' = <<>>
           /\ tasks' = IF IsSome(m.segment) THEN <<NewTask(Unwrap(m.segment))>>
                       ELSE <<>>
    /\ segments' = [id \in DOMAIN datafiles |->
                       [index |-> initialize_index(datafiles[id], block_size)]]
    /\ max_segment_id' = IF DOMAIN datafiles = {} THEN 0 ELSE Max(DOMAIN datafiles)
    /\ id_lock' = "free" /\ exiter' = FALSE
    /\ mpc' = "tick"
    /\ phase' = "up" /\ fpc' = "idle" /\ got' = None
    /\ c_views' = {}
    /\ mem_lock' = "free"
    /\ UNCHANGED <<datafiles, tmpfiles, block_size, codec, m_sid, m_readers, m_todo,
                   m_segment, g_key, d_sid, d_tree, last, m_view, nsets, ncrashes,
                   nmerges, ndrops, fault, nfaults>>

\* Database::new when a replay of Memtable::new panics: the process ends. The
\* replay of the active log panics before a file is changed; the replay of
\* the frozen log, after the active log was truncated and before the older
\* logs are removed.
OpenPanic ==
    /\ phase = "down"
    /\ MemtableNew(logs).panic
    /\ fault # "open_panic"
    /\ LET m == MemtableNew(logs)
       IN  logs' = IF m.truncated
                   THEN FilePut(logs, m.active_log_id, m.logs[m.active_log_id])
                   ELSE logs
    /\ fault' = "open_panic"
    /\ UNCHANGED <<datafiles, tmpfiles, block_size, codec, mem_lock, memtable, database, merger,
                   owner, last, m_view, c_views, nsets, ncrashes, nmerges, ndrops,
                   nfaults>>

\* Memtable::get: the active tree, then the frozen tree.
MemtableGet(key) ==
    IF IsSome(TreeGet(active_tree, key)) THEN TreeGet(active_tree, key)
    ELSE IF IsSome(freeze_tree) THEN TreeGet(Unwrap(freeze_tree), key)
    ELSE None

\* Database::get_from_segments: the segments of the set from the greatest id
\* down, the first one whose get finds the key. `segs` is the set, `files`
\* the files its paths name.
RECURSIVE FirstHit(_, _, _, _)
FirstHit(segs, files, ids, key) ==
    IF ids = {} THEN None
    ELSE LET id == Max(ids)
             r == SegmentGet(segs[id].index, files[id], key)
         IN  IF IsSome(r) THEN r ELSE FirstHit(segs, files, ids \ {id}, key)

get_from_segments(key) == FirstHit(segments, datafiles, DOMAIN segments, key)

\* impl Get for Database, with both locks read at one instant.
ViewNow(key) ==
    IF IsSome(MemtableGet(key)) THEN MemtableGet(key) ELSE get_from_segments(key)

\* try_switch without its test of the frozen tree.
SwitchDueIgnoringFrozen(size, frozen) == size > SwitchMemSize

\* Memtable::try_switch, line 200: whether the switch is made.
SwitchDue(size, frozen) == size > SwitchMemSize /\ ~IsSome(frozen)

\* RwLock::write, lines 180 and 381: it returns once no guard is out.
WriteLockFree(lock) == lock = "free"

\* impl Map for Database, set: under the memtable's write lock Memtable::set
\* (the record appended to the log, then the tree and active_size updated)
\* and try_switch, with force_switch when it is due; then write_new_segment
\* spawns the flush thread of the frozen tree. force_switch leaves
\* active_size as it is.
Set(key, value) ==
    /\ phase = "up" /\ fpc = "idle"
    /\ WriteLockFree(mem_lock)
    /\ nsets < MaxSets
    /\ LET old == TreeGet(active_tree, key)
           size2 == (IF IsSome(old) THEN active_size - ValLen(Unwrap(old))
                     ELSE active_size + KeyLen(key)) + ValLen(value)
           tree2 == TreeInsert(active_tree, key, value)
           logs2 == FilePut(logs, log,
                            logs[log] \o log_buf \o <<parse_record(key, value)>>)
       IN  /\ active_size' = size2
           /\ log_buf' = <<>>
           /\ IF SwitchDue(size2, freeze_tree)
              THEN /\ freeze_log_id' = Some(active_log_id)
                   /\ active_log_id' = active_log_id + 1
                   /\ logs' = IF (active_log_id + 1) \in DOMAIN logs2 THEN logs2
                              ELSE FilePut(logs2, active_log_id + 1, <<>>)
                   /\ active_tree' = EmptyTree
                   /\ freeze_tree' = Some(tree2)
                   /\ log' = active_log_id + 1
                   /\ tasks' = Append(tasks, NewTask(tree2))
              ELSE /\ logs' = logs2
                   /\ active_tree' = tree2
                   /\ UNCHANGED <<freeze_tree, active_log_id, freeze_log_id, log, tasks>>
    /\ last' = [last EXCEPT ![key] = value]
    /\ m_view' = None
    /\ nsets' = nsets + 1
    /\ got' = None
    /\ UNCHANGED <<datafiles, tmpfiles, block_size, codec, mem_lock, segments, max_segment_id,
                   id_lock, exiter, merger, phase, fpc, g_key, d_sid, d_tree,
                   c_views, ncrashes, nmerges, ndrops, fault, nfaults>>

\* The active tree with the entry inserted although the log write failed.
AfterLogFaultInserted(tree, key, value) == TreeInsert(tree, key, value)

\* Memtable::set, lines 274-277: the `?` of the log write and of the log
\* flush return before line 280, so the tree is the one before the call.
AfterLogFault(tree, key, value) == tree

\* set when the write of the record to the log fails: MapError::WriteLog.
\* The csv writer holds the record in its buffer when the write fails;
\* whether it still holds it afterwards is the writer's matter, so both
\* outcomes are taken.
SetLogFault(key, value) ==
    /\ phase = "up" /\ fpc = "idle"
    /\ WriteLockFree(mem_lock)
    /\ nsets < MaxSets /\ nfaults < MaxFaults
    /\ \E kept \in BOOLEAN :
          log_buf' = IF kept THEN Append(log_buf, parse_record(key, value)) ELSE log_buf
    /\ active_tree' = AfterLogFault(active_tree, key, value)
    /\ m_view' = None
    /\ nsets' = nsets + 1
    /\ fault' = "log" /\ nfaults' = nfaults + 1
    /\ got' = None
    /\ UNCHANGED <<disk, block_size, codec, mem_lock, freeze_tree, active_size, active_log_id,
                   freeze_log_id, log, database, merger, phase, fpc, g_key, d_sid,
                   d_tree, last, c_views, ncrashes, nmerges, ndrops>>

\* set when force_switch fails at line 183, the new log file not created:
\* Memtable::set has returned Ok, lines 177-178 have run, and the error
\* leaves through the `?` of try_switch (database.rs line 383).
SetSwitchFault(key, value) ==
    /\ phase = "up" /\ fpc = "idle"
    /\ WriteLockFree(mem_lock)
    /\ nsets < MaxSets /\ nfaults < MaxFaults
    /\ LET old == TreeGet(active_tree, key)
           size2 == (IF IsSome(old) THEN active_size - ValLen(Unwrap(old))
                     ELSE active_size + KeyLen(key)) + ValLen(value)
       IN  /\ SwitchDue(size2, freeze_tree)
           /\ active_size' = size2
           /\ active_tree' = TreeInsert(active_tree, key, value)
           /\ logs' = FilePut(logs, log,
                              logs[log] \o log_buf \o <<parse_record(key, value)>>)
           /\ log_buf' = <<>>
           /\ freeze_log_id' = Some(active_log_id)
           /\ active_log_id' = active_log_id + 1
    /\ m_view' = None
    /\ nsets' = nsets + 1
    /\ fault' = "switch" /\ nfaults' = nfaults + 1
    /\ got' = None
    /\ UNCHANGED <<datafiles, tmpfiles, block_size, codec, mem_lock, freeze_tree, log, database,
                   merger, phase, fpc, g_key, d_sid, d_tree, last, c_views,
                   ncrashes, nmerges, ndrops>>

\* A get that returns with its read guard still out.
GuardLeaked == "read"

\* impl Get for Database, lines 365-375: the read guard of line 367 is a
\* temporary of get's body; it is dropped by the time get returns.
GuardAfterGet == "free"

\* impl Get for Database, lines 365-371: the memtable under its read lock.
\* `got` is the result of the last get that returned. The guard is a
\* temporary of the `if let` scrutinee: on a miss it lives through the else
\* branch when the crate is built for an edition up to 2021 and is dropped
\* before it from edition 2024 on, hence `kept`.
GetMemtable(key) ==
    /\ phase = "up" /\ fpc = "idle"
    /\ LET r == MemtableGet(key)
       IN  IF IsSome(r)
           THEN /\ got' = Some([key |-> key, value |-> r])
                /\ mem_lock' = GuardAfterGet
                /\ UNCHANGED <<fpc, g_key>>
           ELSE /\ fpc' = "segments" /\ g_key' = key /\ got' = None
                /\ \E kept \in BOOLEAN :
                       mem_lock' = IF kept THEN "read" ELSE mem_lock
    /\ UNCHANGED <<disk, block_size, codec, memtable, database, merger, phase,
                   d_sid, d_tree, history>>

\* impl Get for Database, line 373: on a miss, the segments under the read
\* lock of the Segment Set, which get_from_segments takes at line 195 and
\* holds over the reads of the files only; get returns.
GetSegments ==
    /\ phase = "up" /\ fpc = "segments"
    /\ got' = Some([key |-> g_key, value |-> get_from_segments(g_key)])
    /\ fpc' = "idle" /\ g_key' = 0
    /\ mem_lock' = GuardAfterGet
    /\ UNCHANGED <<disk, block_size, codec, memtable, database, merger, phase,
                   d_sid, d_tree, history>>

\* A lock() that returns whoever holds the mutex.
MutexIgnored(lock) == TRUE

\* max_segment_id.lock(): returns once nobody holds the mutex.
MutexFree(lock) == lock = "free"

\* An id that is handed out again instead of a new one.
NewSegmentIdReused(id) == id

\* `*segment_id += 1` under the max_segment_id mutex: the id handed out.
NewSegmentId(id) == id + 1

\* ---- the flush thread of write_new_segment, lines 166-183
SetTask(i, t) == [tasks EXCEPT ![i] = t]
DropTask(i) == [j \in 1..(Len(tasks) - 1) |-> IF j < i THEN tasks[j] ELSE tasks[j + 1]]

\* lines 167-174: the mutex is taken and kept to the end of the thread
FlushLock(i) ==
    /\ tasks[i].pc = "lock" /\ MutexFree(id_lock)
    /\ id_lock' = "flush"
    /\ max_segment_id' = NewSegmentId(max_segment_id)
    /\ tasks' = SetTask(i, [tasks[i] EXCEPT !.pc = "write",
                                            !.sid = NewSegmentId(max_segment_id)])
    /\ UNCHANGED <<disk, block_size, codec, mem_lock, memtable, segments, exiter, merger, owner, history>>

\* line 176: write_to_path(tmp_path): the temp file is opened without
\* truncation, and each step writes one more record of the tree to it
FlushWrite(i) ==
    /\ tasks[i].pc = "write"
    /\ LET records == RecordsOfTree(tasks[i].tree)
           n == IF tasks[i].written < Len(records) THEN tasks[i].written + 1 ELSE 0
       IN  /\ tmpfiles' = FilePut(tmpfiles, tasks[i].sid,
                                  WriteOver(tmpfiles, tasks[i].sid, SubSeq(records, 1, n)))
           /\ tasks' = SetTask(i, [tasks[i] EXCEPT
                                      !.written = n,
                                      !.pc = IF n = Len(records) THEN "move" ELSE "write"])
    /\ UNCHANGED <<logs, datafiles, block_size, codec, mem_lock, memtable, segments, max_segment_id,
                   id_lock, exiter, merger, owner, history>>

\* lines 177-178: initialize_index on the temp file, then move_to(path)
FlushMove(i) ==
    /\ tasks[i].pc = "move"
    /\ datafiles' = FilePut(datafiles, tasks[i].sid, tmpfiles[tasks[i].sid])
    /\ tmpfiles' = FileRemove(tmpfiles, tasks[i].sid)
    /\ tasks' = SetTask(i, [tasks[i] EXCEPT
                               !.pc = "finalize",
                               !.index = initialize_index(tmpfiles[tasks[i].sid], block_size)])
    /\ UNCHANGED <<logs, block_size, codec, mem_lock, memtable, segments, max_segment_id,
                   id_lock, exiter, merger, owner, history>>

\* A finalize_switch that leaves the frozen tree in place.
FinalizedKept(frozen) == frozen

\* Memtable::finalize_switch, line 209: the frozen tree is cleared.
Finalized(frozen) == None

\* line 180: Memtable::finalize_switch under the memtable's write lock
FlushFinalize(i) ==
    /\ tasks[i].pc = "finalize"
    /\ WriteLockFree(mem_lock)
    /\ IsSome(freeze_log_id) => Unwrap(freeze_log_id) \in DOMAIN logs
    /\ freeze_tree' = Finalized(freeze_tree)
    /\ freeze_log_id' = None
    /\ logs' = IF IsSome(freeze_log_id) THEN FileRemove(logs, Unwrap(freeze_log_id))
               ELSE logs
    /\ tasks' = SetTask(i, [tasks[i] EXCEPT !.pc = "insert"])
    /\ UNCHANGED <<datafiles, tmpfiles, block_size, codec, mem_lock, active_tree, active_size,
                   active_log_id, log, log_buf, segments, max_segment_id, id_lock,
                   exiter, merger, owner, history>>

\* line 181: the insert under the write lock of the Segment Set; the thread
\* ends and the mutex is released
FlushInsert(i) ==
    /\ tasks[i].pc = "insert"
    /\ segments' = FilePut(segments, tasks[i].sid, [index |-> tasks[i].index])
    /\ id_lock' = "free"
    /\ tasks' = DropTask(i)
    /\ UNCHANGED <<disk, block_size, codec, mem_lock, memtable, max_segment_id, exiter, merger,
                   owner, history>>

Flush ==
    \E i \in 1..Len(tasks) :
        FlushLock(i) \/ FlushWrite(i) \/ FlushMove(i) \/ FlushFinalize(i) \/ FlushInsert(i)

\* lines 176-178 fail (the temp file cannot be opened or written, the index
\* cannot be built, the rename fails): the `?` ends the thread, which
\* releases the mutex; the temp file, when there is one, stays
FlushFault(i) ==
    /\ tasks[i].pc \in {"write", "move"}
    /\ nfaults < MaxFaults
    /\ id_lock' = "free"
    /\ tasks' = DropTask(i)
    /\ fault' = "flush" /\ nfaults' = nfaults + 1
    /\ UNCHANGED <<disk, block_size, codec, mem_lock, memtable, segments, max_segment_id, exiter,
                   merger, owner, last, m_view, c_views, nsets, ncrashes, nmerges,
                   ndrops>>

\* line 180 fails: finalize_switch has cleared freeze_tree and taken
\* freeze_log_id when remove_file fails, for want of the file or for an I/O
\* fault; the `?` ends the thread before line 181
FlushFinalizeFault(i) ==
    /\ tasks[i].pc = "finalize"
    /\ WriteLockFree(mem_lock)
    /\ IsSome(freeze_log_id)
    /\ IF Unwrap(freeze_log_id) \in DOMAIN logs
       THEN nfaults < MaxFaults /\ nfaults' = nfaults + 1
       ELSE nfaults' = nfaults
    /\ freeze_tree' = Finalized(freeze_tree)
    /\ freeze_log_id' = None
    /\ id_lock' = "free"
    /\ tasks' = DropTask(i)
    /\ fault' = "finalize"
    /\ UNCHANGED <<disk, block_size, codec, mem_lock, active_tree, active_size, active_log_id, log,
                   log_buf, segments, max_segment_id, exiter, merger, owner, last,
                   m_view, c_views, nsets, ncrashes, nmerges, ndrops>>

FlushFaults == \E i \in 1..Len(tasks) : FlushFault(i) \/ FlushFinalizeFault(i)

\* ---- the merging task, Database::merge_segments
\* lines 264-290: one pass over the readers from the greatest id down. `st`
\* holds recs (segment id -> the records its reader has not yielded yet),
\* smallest (None or Some(<<id, key>>)) and done.
\* The readers taken from the least id up.
NextReaderAscending(ids) == CHOOSE id \in ids : \A other \in ids : id <= other

\* segment_records.iter_mut().rev(), line 264: the reader of the greatest id
\* first.
NextReader(ids) == Max(ids)

RECURSIVE MergeScan(_, _)
MergeScan(ids, st) ==
    IF ids = {} THEN st
    ELSE LET id == NextReader(ids)
             rest == ids \ {id}
         IN  IF st.recs[id] = <<>>
             THEN MergeScan(rest, [st EXCEPT !.done = st.done \cup {id}])
             ELSE LET key == Head(st.recs[id])[1]
                  IN  IF ~IsSome(st.smallest)
                      THEN MergeScan(rest, [st EXCEPT !.smallest = Some(<<id, key>>)])
                      ELSE IF key < Unwrap(st.smallest)[2]
                      THEN MergeScan(rest, [st EXCEPT !.smallest = Some(<<id, key>>)])
                      ELSE IF key = Unwrap(st.smallest)[2]
                      THEN MergeScan(rest, [st EXCEPT !.recs[id] = Tail(st.recs[id])])
                      ELSE MergeScan(rest, st)

\* lines 261-308: the loop; each turn writes the record of the reader that
\* holds the smallest key, and ends when no reader holds a record. The writer
\* is not flexible: writing a record whose number of fields is not that of
\* the first record written fails, and the loop ends with `failed`.
RECURSIVE MergeLoop(_, _)
MergeLoop(recs, out) ==
    LET st == MergeScan(DOMAIN recs,
                        [recs |-> recs, smallest |-> None, done |-> {}])
    IN  IF ~IsSome(st.smallest) THEN [out |-> out, failed |-> FALSE]
        ELSE LET sid == Unwrap(st.smallest)[1]
                 record == Head(st.recs[sid])
                 recs2 == [id \in (DOMAIN recs) \ st.done |->
                             IF id = sid THEN Tail(st.recs[id]) ELSE st.recs[id]]
             IN  IF out # <<>> /\ Len(record) # Len(out[1])
                 THEN [out |-> out, failed |-> TRUE]
                 ELSE MergeLoop(recs2, Append(out, record))

IsRecord(record) == record # <<>>
KWayMerge(ids) == MergeLoop([id \in ids |-> SelectSeq(datafiles[id], IsRecord)], <<>>)

\* lines 219-228: a tick of the loop. The exit signal ends the task; else,
\* when merge_period has elapsed and the set holds two segments or more, a
\* cycle starts.
\* A receiver that never gets the signal.
ExitNeverReceived(sent) == FALSE

\* exiter.try_recv(), lines 221-224: Ok(()) once the signal was sent.
ExitReceived(sent) == sent

MergeExit ==
    /\ mpc = "tick" /\ ExitReceived(exiter)
    /\ mpc' = "exited"
    /\ UNCHANGED <<disk, block_size, codec, mem_lock, memtable, database, m_sid, m_readers, m_todo,
                   m_segment, owner, history>>

MergeTick ==
    /\ mpc = "tick" /\ ~ExitReceived(exiter)
    /\ nmerges < MaxMerges
    /\ Cardinality(DOMAIN segments) > 1
    /\ mpc' = "lock"
    /\ nmerges' = nmerges + 1
    /\ UNCHANGED <<disk, block_size, codec, mem_lock, memtable, database, m_sid, m_readers, m_todo,
                   m_segment, owner, last, m_view, c_views, nsets, ncrashes, ndrops,
                   fault, nfaults>>

\* lines 229-241: the mutex, kept to the end of the cycle, the new id, and a
\* reader on every segment of the set
MergeLock ==
    /\ mpc = "lock" /\ MutexFree(id_lock)
    /\ id_lock' = "merge"
    /\ max_segment_id' = NewSegmentId(max_segment_id)
    /\ m_sid' = NewSegmentId(max_segment_id)
    /\ m_readers' = DOMAIN segments
    /\ mpc' = "write"
    /\ m_view' = Some([k \in Keys |-> ViewNow(k)])
    /\ UNCHANGED <<disk, block_size, codec, mem_lock, memtable, segments, tasks, exiter, m_todo,
                   m_segment, owner, last, c_views, nsets, ncrashes, nmerges, ndrops,
                   fault, nfaults>>

\* lines 250-308: the temp file is opened without truncation and the merged
\* records are written to it; when a write fails the temp file is removed
\* (lines 346-348) and the cycle ends
MergeWrite ==
    /\ mpc = "write"
    /\ LET m == KWayMerge(m_readers)
       IN  IF m.failed
           THEN /\ tmpfiles' = FileRemove(tmpfiles, m_sid)
                /\ id_lock' = "free"
                /\ mpc' = "tick" /\ m_sid' = 0 /\ m_readers' = {}
           ELSE /\ tmpfiles' = FilePut(tmpfiles, m_sid, WriteOver(tmpfiles, m_sid, m.out))
                /\ mpc' = "move"
                /\ UNCHANGED <<id_lock, m_sid, m_readers>>
    /\ UNCHANGED <<logs, datafiles, block_size, codec, mem_lock, memtable, segments, max_segment_id,
                   tasks, exiter, m_todo, m_segment, owner, history>>

\* lines 310-313: initialize_index on the temp file, then move_to(path)
MergeMove ==
    /\ mpc = "move"
    /\ m_segment' = Some([index |-> initialize_index(tmpfiles[m_sid], block_size)])
    /\ datafiles' = FilePut(datafiles, m_sid, tmpfiles[m_sid])
    /\ tmpfiles' = FileRemove(tmpfiles, m_sid)
    /\ mpc' = "remove"
    /\ m_todo' = m_readers
    /\ UNCHANGED <<logs, block_size, codec, mem_lock, memtable, database, m_sid, m_readers,
                   owner, history>>

\* segment_readers.keys(): the ids in ascending order.
NextRemoved(todo) == CHOOSE id \in todo : \A other \in todo : id <= other

\* lines 319-327: one turn of the loop over segment_readers.keys(): the
\* segment is taken out of the set and its file is removed
MergeRemove ==
    /\ mpc = "remove" /\ m_todo # {}
    /\ LET id == NextRemoved(m_todo)
       IN  /\ segments' = FileRemove(segments, id)
           /\ datafiles' = IF id \in DOMAIN segments THEN FileRemove(datafiles, id)
                           ELSE datafiles
           /\ m_todo' = m_todo \ {id}
    /\ UNCHANGED <<logs, tmpfiles, block_size, codec, mem_lock, memtable, max_segment_id, id_lock,
                   tasks, exiter, mpc, m_sid, m_readers, m_segment, owner, history>>

\* lines 332-350: the merged segment is inserted; the cycle ends and the
\* mutex is released
MergeInsert ==
    /\ mpc = "remove" /\ m_todo = {}
    /\ segments' = FilePut(segments, m_sid, Unwrap(m_segment))
    /\ tmpfiles' = FileRemove(tmpfiles, m_sid)
    /\ id_lock' = "free"
    /\ mpc' = "tick" /\ m_sid' = 0 /\ m_segment' = None /\ m_readers' = {}
    /\ UNCHANGED <<logs, datafiles, block_size, codec, mem_lock, memtable, max_segment_id, tasks,
                   exiter, m_todo, owner, history>>

\* lines 264-295 when the reader of segment `bad` returns an error for its
\* record n and for every read after it: the peeked error has no key, so
\* line 285 passes over it, and when the other readers are done the loop ends
\* at line 303 with `failed` false. The records of `bad` from n on are not
\* in the merged file.
MergeReadFault ==
    /\ mpc = "write"
    /\ nfaults < MaxFaults
    /\ \E bad \in m_readers : \E n \in 1..Len(SelectSeq(datafiles[bad], IsRecord)) :
          LET m == MergeLoop([id \in m_readers |->
                                 IF id = bad
                                 THEN SubSeq(SelectSeq(datafiles[id], IsRecord), 1, n - 1)
                                 ELSE SelectSeq(datafiles[id], IsRecord)], <<>>)
          IN  /\ ~m.failed
              /\ tmpfiles' = FilePut(tmpfiles, m_sid, WriteOver(tmpfiles, m_sid, m.out))
    /\ mpc' = "move"
    /\ fault' = "merge_read" /\ nfaults' = nfaults + 1
    /\ UNCHANGED <<logs, datafiles, block_size, codec, mem_lock, memtable, database, m_sid, m_readers,
                   m_todo, m_segment, owner, last, m_view, c_views, nsets, ncrashes,
                   nmerges, ndrops>>

\* a write to the temp file (line 297), the index (line 311) or the rename
\* (line 313) fails: the temp file is removed (lines 346-348) and the cycle
\* ends
MergeIoFault ==
    /\ mpc \in {"write", "move"}
    /\ nfaults < MaxFaults
    /\ tmpfiles' = FileRemove(tmpfiles, m_sid)
    /\ id_lock' = "free"
    /\ mpc' = "tick" /\ m_sid' = 0 /\ m_readers' = {}
    /\ fault' = "merge_io" /\ nfaults' = nfaults + 1
    /\ UNCHANGED <<logs, datafiles, block_size, codec, mem_lock, memtable, segments, max_segment_id,
                   tasks, exiter, m_todo, m_segment, owner, last, m_view, c_views,
                   nsets, ncrashes, nmerges, ndrops>>

Merge ==
    \/ MergeExit \/ MergeTick \/ MergeLock \/ MergeWrite \/ MergeMove
    \/ MergeRemove \/ MergeInsert

\* ---- impl Drop for Database
\* lines 393-395: the exit signal
DropSignal ==
    /\ phase = "up" /\ fpc = "idle"
    /\ ndrops < MaxDrops
    /\ exiter' = TRUE
    /\ phase' = "join"
    /\ got' = None
    /\ ndrops' = ndrops + 1
    /\ UNCHANGED <<disk, block_size, codec, mem_lock, memtable, segments, max_segment_id, id_lock,
                   tasks, merger, fpc, g_key, d_sid, d_tree, last, m_view, c_views,
                   nsets, ncrashes, nmerges, fault, nfaults>>

\* lines 396-414: every task joined; the mutex and the write lock are free,
\* the id is raised, to_raw_segment takes the active tree out when no tree
\* is frozen; an empty tree has its log removed, another one is written to
\* the temp file. With a tree frozen nothing is written, and the log writer,
\* dropped with the memtable, writes out what it holds
DropWrite ==
    /\ phase = "join" /\ tasks = <<>> /\ mpc = "exited"
    /\ id_lock = "free"
    /\ IF IsSome(freeze_tree)
       THEN /\ logs' = IF log \in DOMAIN logs
                        THEN FilePut(logs, log, logs[log] \o log_buf) ELSE logs
            /\ MemoryGone
            /\ UNCHANGED <<datafiles, tmpfiles>>
       ELSE IF active_tree = EmptyTree
       THEN /\ logs' = FileRemove(logs, active_log_id)
            /\ MemoryGone
            /\ UNCHANGED <<datafiles, tmpfiles>>
       ELSE /\ tmpfiles' = FilePut(tmpfiles, NewSegmentId(max_segment_id),
                              WriteOver(tmpfiles, NewSegmentId(max_segment_id),
                                        RecordsOfTree(active_tree)))
            /\ max_segment_id' = NewSegmentId(max_segment_id)
            /\ d_sid' = NewSegmentId(max_segment_id)
            /\ d_tree' = active_tree
            /\ active_tree' = EmptyTree
            /\ phase' = "rename"
            /\ UNCHANGED <<logs, datafiles, freeze_tree, active_size, active_log_id,
                           freeze_log_id, log, log_buf, segments, id_lock, tasks,
                           exiter, merger, fpc, g_key, got, mem_lock>>
    /\ UNCHANGED <<block_size, codec, history>>

\* line 415: the rename of the temp file
DropRename ==
    /\ phase = "rename"
    /\ datafiles' = FilePut(datafiles, d_sid, tmpfiles[d_sid])
    /\ tmpfiles' = FileRemove(tmpfiles, d_sid)
    /\ phase' = "unlink"
    /\ UNCHANGED <<logs, block_size, codec, mem_lock, memtable, database, merger, fpc, g_key, got,
                   d_sid, d_tree, history>>

\* line 417: remove_active_log; the database is closed
DropUnlink ==
    /\ phase = "unlink"
    /\ logs' = IF active_tree = EmptyTree THEN FileRemove(logs, active_log_id) ELSE logs
    /\ MemoryGone
    /\ UNCHANGED <<datafiles, tmpfiles, block_size, codec, history>>

Drop == DropSignal \/ DropWrite \/ DropRename \/ DropUnlink

\* What get returns for every key with the flush of task t left out (its
\* tree still frozen, its segment not in the set), and with it completed (its
\* tree written to the segment file and the segment in the set).
InPipeline(t) == t.pc \in {"write", "move", "finalize", "insert"}

\* The tree frozen after task t's: there is one only once t has run
\* finalize_switch.
FrozenAfter(t) == IF t.pc = "insert" /\ IsSome(freeze_tree) THEN Unwrap(freeze_tree) ELSE EmptyTree

ViewWithout(t) ==
    [k \in Keys |->
        IF k \in DOMAIN active_tree THEN Some(active_tree[k])
        ELSE IF k \in DOMAIN FrozenAfter(t) THEN Some(FrozenAfter(t)[k])
        ELSE IF k \in DOMAIN t.tree THEN Some(t.tree[k])
        ELSE FirstHit(segments, datafiles, (DOMAIN segments) \ {t.sid}, k)]

ViewWith(t) ==
    LET file == IF t.pc \in {"finalize", "insert"} THEN datafiles[t.sid]
                ELSE WriteOver(tmpfiles, t.sid, RecordsOfTree(t.tree))
        segs == FilePut(segments, t.sid, [index |-> initialize_index(file, block_size)])
        files == FilePut(datafiles, t.sid, file)
    IN  [k \in Keys |->
            IF k \in DOMAIN active_tree THEN Some(active_tree[k])
            ELSE IF k \in DOMAIN FrozenAfter(t) THEN Some(FrozenAfter(t)[k])
            ELSE FirstHit(segs, files, DOMAIN segs, k)]

\* The process ends at any point, without Drop: what is in memory is gone,
\* the files stay as they are.
Crash ==
    /\ phase # "down"
    /\ ncrashes < MaxCrashes
    /\ ncrashes' = ncrashes + 1
    /\ c_views' = IF \E i \in 1..Len(tasks) : InPipeline(tasks[i])
                  THEN LET i == CHOOSE j \in 1..Len(tasks) : InPipeline(tasks[j])
                       IN  {ViewWithout(tasks[i]), ViewWith(tasks[i])}
                  ELSE {}
    /\ MemoryGone
    /\ UNCHANGED <<disk, block_size, codec, last, m_view, nsets, nmerges, ndrops,
                   fault, nfaults>>

\* What a log holds of a record whose write the end of the process cut short:
\* one to three bytes of the digest; the digest alone; the digest and the
\* key; the digest, the key and a proper prefix of the value.
TornRecords(key, value) ==
    LET record == parse_record(key, value)
    IN  {<<SubSeq(record[1], 1, n)>> : n \in 1..3}
            \cup {<<record[1]>>, <<record[1], key>>}
            \cup {<<record[1], key, v>> : v \in 0..(value - 1)}

\* The process ends inside Memtable::set, while the writer's flush of line
\* 277 is writing the record to the log file.
CrashInSet(key, value) ==
    /\ phase = "up" /\ fpc = "idle"
    /\ WriteLockFree(mem_lock)
    /\ nsets < MaxSets /\ ncrashes < MaxCrashes
    /\ log \in DOMAIN logs
    /\ \E torn \in TornRecords(key, value) :
           logs' = FilePut(logs, log, logs[log] \o log_buf \o <<torn>>)
    /\ nsets' = nsets + 1 /\ ncrashes' = ncrashes + 1
    /\ c_views' = {}
    /\ MemoryGone
    /\ UNCHANGED <<datafiles, tmpfiles, block_size, codec, last, m_view, nmerges, ndrops,
                   fault, nfaults>>

\* ---- the record codec on its own: parse_record, then read_record
store == <<disk, block_size, memtable, database, merger, owner, history, mem_lock>>

\* Bit b (1 the most significant) of byte j of a field, flipped.
FlipBit(field, j, b) ==
    [field EXCEPT ![j] = IF ByteBit(field[j], b) = 1 THEN field[j] - 2 ^ (8 - b)
                         ELSE field[j] + 2 ^ (8 - b)]

\* Memtable::parse_record on the pair drawn
CodecEncode ==
    /\ c_pc = "idle"
    /\ c_record' = parse_record(c_in[1], c_in[2])
    /\ c_pc' = "encoded"
    /\ UNCHANGED <<store, c_in, c_flipped, c_out>>

\* one bit of the record's digest field is flipped
CodecFlip(j, b) ==
    /\ c_pc = "encoded" /\ ~c_flipped
    /\ c_record' = [c_record EXCEPT ![1] = FlipBit(c_record[1], j, b)]
    /\ c_flipped' = TRUE
    /\ UNCHANGED <<store, c_in, c_out, c_pc>>

\* Memtable::read_record on the record
CodecDecode ==
    /\ c_pc = "encoded"
    /\ c_out' = read_record(c_record)
    /\ c_pc' = "decoded"
    /\ UNCHANGED <<store, c_in, c_record, c_flipped>>

\* ---- specifications
\* Spec: everything. SpecSession: one session, from the open of an empty
\* directory, without Drop and without crash. SpecLate: a store that has
\* switched its log eight times and merged its segments, so that its active
\* log is LateLogId, with crash and reopen.
LateLogId == 9
LateSegId == 9

InitLate ==
    /\ logs = [id \in {LateLogId} |-> <<>>]
    /\ datafiles = [id \in {LateSegId} |-> << <<1, 1>> >>]
    /\ tmpfiles = <<>>
    /\ block_size \in BlockSizes
    /\ active_tree = EmptyTree /\ freeze_tree = None /\ active_size = 0
    /\ active_log_id = 0 /\ freeze_log_id = None /\ log = 0 /\ log_buf = <<>>
    /\ segments = <<>> /\ max_segment_id = 0 /\ id_lock = "free"
    /\ tasks = <<>> /\ exiter = FALSE
    /\ mpc = "none" /\ m_sid = 0 /\ m_readers = {} /\ m_todo = {}
    /\ m_segment = None
    /\ phase = "down" /\ fpc = "idle" /\ g_key = 0 /\ got = None
    /\ d_sid = 0 /\ d_tree = EmptyTree
    /\ last = [k \in Keys |-> IF k = 1 THEN 1 ELSE 0]
    /\ m_view = None /\ c_views = {}
    /\ nsets = 0 /\ ncrashes = 0 /\ nmerges = 0 /\ ndrops = 0
    /\ fault = "none" /\ nfaults = 0
    /\ CodecOff
    /\ mem_lock = "free"

NextSession ==
    \/ Open
    \/ \E key \in Keys, value \in Values : Set(key, value)
    \/ \E key \in Keys : GetMemtable(key)
    \/ GetSegments
    \/ Flush
    \/ MergeTick \/ MergeLock \/ MergeWrite \/ MergeMove \/ MergeRemove \/ MergeInsert

NextLate ==
    \/ Open
    \/ \E key \in Keys, value \in Values : Set(key, value)
    \/ \E key \in Keys : GetMemtable(key)
    \/ GetSegments
    \/ Flush
    \/ Crash

Next ==
    \/ Open
    \/ \E key \in Keys, value \in Values : Set(key, value)
    \/ \E key \in Keys : GetMemtable(key)
    \/ GetSegments
    \/ Flush
    \/ Merge
    \/ Drop
    \/ Crash
\* SpecClose: sessions that end with Drop, each followed by a reopen, without
\* crash.
NextClose ==
    \/ Open
    \/ \E key \in Keys, value \in Values : Set(key, value)
    \/ Flush
    \/ Merge
    \/ Drop

\* SpecLocks: the foreground's gets, sets and Drop against the flush threads
\* and the merging task.
NextLocks ==
    \/ Open
    \/ \E key \in Keys, value \in Values : Set(key, value)
    \/ \E key \in Keys : GetMemtable(key)
    \/ GetSegments
    \/ Flush
    \/ Merge
    \/ Drop

\* SpecFault: one session in which an I/O operation can fail.
NextFault ==
    \/ Open
    \/ \E key \in Keys, value \in Values : Set(key, value)
    \/ \E key \in Keys, value \in Values : SetLogFault(key, value)
    \/ \E key \in Keys, value \in Values : SetSwitchFault(key, value)
    \/ Flush
    \/ FlushFaults
    \/ MergeTick \/ MergeLock \/ MergeWrite \/ MergeMove \/ MergeRemove \/ MergeInsert
    \/ MergeReadFault \/ MergeIoFault

\* SpecTorn: sessions that can end inside a write to the log, and the opens
\* that follow.
NextTorn ==
    \/ Open
    \/ OpenPanic
    \/ \E key \in Keys, value \in Values : Set(key, value)
    \/ Flush
    \/ \E key \in Keys, value \in Values : CrashInSet(key, value)

\* SpecRestart: sessions with flushes and compaction cycles that a crash can
\* end at any point, and the opens that follow.
NextRestart ==
    \/ Open
    \/ \E key \in Keys, value \in Values : Set(key, value)
    \/ Flush
    \/ MergeTick \/ MergeLock \/ MergeWrite \/ MergeMove \/ MergeRemove \/ MergeInsert
    \/ Crash

\* SpecMerge: compaction cycles of a store opened on MergeInputs segment
\* files, each any sorted file over the keys and the values, and no log.
MergeInputs == 3
SortedFiles ==
    {RecordsOfTree(tree) :
        tree \in UNION {[keys -> Values] : keys \in (SUBSET Keys) \ {{}}}}

InitMerge ==
    /\ logs = [id \in {1} |-> <<>>]
    /\ datafiles \in [1..MergeInputs -> SortedFiles]
    /\ tmpfiles = <<>>
    /\ block_size \in BlockSizes
    /\ active_tree = EmptyTree /\ freeze_tree = None /\ active_size = 0
    /\ active_log_id = 1 /\ freeze_log_id = None /\ log = 1 /\ log_buf = <<>>
    /\ segments = [id \in DOMAIN datafiles |->
                      [index |-> initialize_index(datafiles[id], block_size)]]
    /\ max_segment_id = MergeInputs /\ id_lock = "free"
    /\ tasks = <<>> /\ exiter = FALSE
    /\ mpc = "tick" /\ m_sid = 0 /\ m_readers = {} /\ m_todo = {}
    /\ m_segment = None
    /\ phase = "up" /\ fpc = "idle" /\ g_key = 0 /\ got = None
    /\ d_sid = 0 /\ d_tree = EmptyTree
    /\ last = [k \in Keys |-> 0] /\ m_view = None /\ c_views = {}
    /\ nsets = 0 /\ ncrashes = 0 /\ nmerges = 0 /\ ndrops = 0
    /\ fault = "none" /\ nfaults = 0
    /\ CodecOff
    /\ mem_lock = "free"

NextMerge ==
    \/ MergeTick \/ MergeLock \/ MergeWrite \/ MergeMove \/ MergeRemove \/ MergeInsert

\* SpecCodec: the codec on every pair of a key and a value, the empty value
\* included; the store stays closed.
InitCodec ==
    /\ logs = <<>> /\ datafiles = <<>> /\ tmpfiles = <<>>
    /\ block_size = 0
    /\ active_tree = EmptyTree /\ freeze_tree = None /\ active_size = 0
    /\ active_log_id = 0 /\ freeze_log_id = None /\ log = 0 /\ log_buf = <<>>
    /\ segments = <<>> /\ max_segment_id = 0 /\ id_lock = "free"
    /\ tasks = <<>> /\ exiter = FALSE
    /\ mpc = "none" /\ m_sid = 0 /\ m_readers = {} /\ m_todo = {}
    /\ m_segment = None
    /\ phase = "down" /\ fpc = "idle" /\ g_key = 0 /\ got = None
    /\ d_sid = 0 /\ d_tree = EmptyTree
    /\ last = [k \in Keys |-> 0] /\ m_view = None /\ c_views = {}
    /\ nsets = 0 /\ ncrashes = 0 /\ nmerges = 0 /\ ndrops = 0
    /\ fault = "none" /\ nfaults = 0
    /\ c_in \in Keys \X (0..NVals)
    /\ c_record = <<>> /\ c_flipped = FALSE /\ c_out = None /\ c_pc = "idle"
    /\ mem_lock = "free"

NextCodec ==
    \/ CodecEncode
    \/ \E j \in 1..4, b \in 1..8 : CodecFlip(j, b)
    \/ CodecDecode

Spec == Init /\ [][Next]_vars
SpecRestart == Init /\ [][NextRestart]_vars
SpecMerge == InitMerge /\ [][NextMerge]_vars
\* The merging task leaves the write of the merged file, whatever it wrote.
MergeWriteDone == mpc = "write" /\ mpc' \in {"move", "tick"}

\* SpecLive: SpecClose with threads that are scheduled and file operations
\* that return: a flush thread that can take a step takes one, and so does
\* the merging task inside a cycle or once the signal is sent. Nothing
\* makes a cycle start.
SpecLive ==
    /\ Init /\ [][NextClose]_vars
    /\ WF_vars(Flush)
    /\ WF_vars(MergeExit) /\ WF_vars(MergeLock) /\ WF_mpc(MergeWriteDone)
    /\ WF_vars(MergeMove) /\ WF_vars(MergeRemove) /\ WF_vars(MergeInsert)
\* The steps in which a flush thread gets a lock: lock() at line 167 and
\* memtable.write() at line 180.
FlushAcquire == \E i \in 1..Len(tasks) : FlushLock(i) \/ FlushFinalize(i)

\* The next step of the merging task inside a cycle (lines 229-336), the
\* removals of lines 314-331 apart, and the return of a get that reads the
\* segments (line 373).
MergeCycleStep ==
    \/ mpc = "lock" /\ MutexFree(id_lock) /\ mpc' = "write"
    \/ MergeWriteDone
    \/ mpc = "move" /\ mpc' = "remove"
    \/ mpc = "remove" /\ m_todo = {} /\ mpc' = "tick"
GetReturns == fpc = "segments" /\ fpc' = "idle"

\* SpecFlushLive: sessions of gets and sets that a crash can end, with no I/O
\* error and every thread scheduled: a flush thread that can take a step
\* takes one, so does the merging task inside a cycle, and a get that began
\* returns. The locks are fair: a flush thread that waits for a lock that is
\* free again and again gets it. Nothing makes a cycle start, and nothing
\* makes the store be opened again.
NextFlushLive ==
    \/ Open
    \/ \E key \in Keys, value \in Values : Set(key, value)
    \/ \E key \in Keys : GetMemtable(key)
    \/ GetSegments
    \/ Flush
    \/ MergeTick \/ MergeLock \/ MergeWrite \/ MergeMove \/ MergeRemove \/ MergeInsert
    \/ Crash
SpecFlushLive ==
    /\ Init /\ [][NextFlushLive]_vars
    /\ WF_vars(Flush) /\ SF_vars(FlushAcquire)
    /\ WF_fpc(GetReturns)
    /\ WF_mpc(MergeCycleStep) /\ WF_vars(MergeRemove)
SpecCodec == InitCodec /\ [][NextCodec]_vars
SpecTorn == Init /\ [][NextTorn]_vars
SpecFault == Init /\ [][NextFault]_vars
SpecClose == Init /\ [][NextClose]_vars
SpecLocks == Init /\ [][NextLocks]_vars
SpecSession == Init /\ [][NextSession]_vars
SpecLate == InitLate /\ [][NextLate]_vars

\* ------------------------------------------------------------------ claims
GotKey == Unwrap(got).key
GotValue == Unwrap(got).value

\* C1: within one session a get(k) that runs after set(k, v) returned, with no
\* later set of k, returns Some(v), under every interleaving of switches,
\* flushes and merge cycles.
C1_ReadYourWrites ==
    (IsSome(got) /\ last[GotKey] # 0) => GotValue = Some(last[GotKey])

\* The key a record of a segment file holds was written to that file.
Holds(file, key) == \E i \in 1..Len(file) : Len(file[i]) >= 2 /\ file[i][1] = key
ValueIn(file, key) ==
    file[CHOOSE i \in 1..Len(file) : Len(file[i]) >= 2 /\ file[i][1] = key][2]

\* C3: Segment::get returns the value of every key stored in a segment whose
\* index is built, whether or not the index holds an entry <= the key.
C3_IndexSoundness ==
    \A id \in DOMAIN segments : \A key \in Keys :
        Holds(datafiles[id], key) =>
            SegmentGet(segments[id].index, datafiles[id], key)
                = Some(ValueIn(datafiles[id], key))

\* C5: a get of a key of the frozen tree that runs while its flush is in
\* progress returns a value.
C5_FlushHandoff ==
    \A i \in 1..Len(tasks) :
        (IsSome(got) /\ GotKey \in DOMAIN tasks[i].tree) => IsSome(GotValue)

\* C6: no segment a merge cycle read leaves the Segment Set before the merged
\* segment is in it.
C6_InstallBeforeRemove ==
    (mpc = "remove" /\ m_todo # m_readers) => m_sid \in DOMAIN segments

\* C2 (for a store whose block_size is 0, read when no flush is in
\* progress): after a crash and the reopen, get(k) returns Some(v) for the
\* last set(k, v) that returned.
C2_Durability ==
    (ncrashes > 0 /\ phase = "up" /\ tasks = <<>> /\ block_size = 0) =>
        \A key \in Keys : last[key] # 0 => ViewNow(key) = Some(last[key])

\* C4: an open that finds two log files or more makes the one of greatest id
\* the active log, replays the one of second greatest id into the frozen
\* tree and schedules its flush, and removes the others.
SecondMax(S) == Max(S \ {Max(S)})
C4_NewestLogActive ==
    [][(phase = "down" /\ phase' = "up" /\ Cardinality(DOMAIN logs) >= 2) =>
          /\ active_log_id' = Max(DOMAIN logs)
          /\ freeze_log_id' = Some(SecondMax(DOMAIN logs))
          /\ freeze_tree' = Some(build_tree_from_path(logs[SecondMax(DOMAIN logs)]).tree)
          /\ Len(tasks') = 1
          /\ DOMAIN logs' = {Max(DOMAIN logs), SecondMax(DOMAIN logs)}]_vars

Holders(key) == {id \in DOMAIN segments : Holds(datafiles[id], key)}
Newest(key) ==
    IF key \in DOMAIN active_tree THEN Some(active_tree[key])
    ELSE IF IsSome(freeze_tree) /\ key \in DOMAIN Unwrap(freeze_tree)
         THEN Some(Unwrap(freeze_tree)[key])
    ELSE IF Holders(key) # {} THEN Some(ValueIn(datafiles[Max(Holders(key))], key))
    ELSE None
C9_NewestFirst ==
    phase = "up" => \A key \in Keys : ViewNow(key) = Newest(key)

\* C10 as stated, its count of flushes: at most one flush thread has been
\* spawned and has not ended.
C10_OneFlushInFlight == Len(tasks) <= 1

\* C10, with the flushes counted at the mutex: at most one tree is frozen;
\* the flush threads that have not run finalize_switch are none when no tree
\* is frozen and the one thread of the frozen tree otherwise; at most one
\* flush thread is past the mutex of max_segment_id (a second one can wait
\* for it while the first has run finalize_switch and not yet inserted its
\* segment); and a set that finds a tree frozen returns with that tree and
\* the flush threads as they were and the active tree grown by its key.
Unfinalized == {i \in 1..Len(tasks) : tasks[i].pc \in {"lock", "write", "move", "finalize"}}
C10_OneFrozen ==
    /\ [](/\ Cardinality(Unfinalized) <= 1
          /\ IsSome(freeze_tree) <=> Unfinalized # {}
          /\ \A i \in Unfinalized : tasks[i].tree = Unwrap(freeze_tree)
          /\ Cardinality({i \in 1..Len(tasks) : InPipeline(tasks[i])}) <= 1)
    /\ [][(nsets' = nsets + 1 /\ IsSome(freeze_tree)) =>
             /\ freeze_tree' = freeze_tree
             /\ tasks' = tasks
             /\ DOMAIN active_tree \subseteq DOMAIN active_tree'
             /\ \E key \in DOMAIN active_tree' : active_tree'[key] = last'[key]]_vars

\* C10's case: a tree is frozen, a set has run since the switch, and
\* active_size is above the threshold.
C10_Witness ==
    IsSome(freeze_tree) /\ active_tree # EmptyTree /\ active_size > SwitchMemSize

\* The segment ids that are held by an operation: by the flush threads past
\* the mutex, by the merge cycle, by Drop.
HeldIds ==
    {tasks[i].sid : i \in {j \in 1..Len(tasks) : InPipeline(tasks[j])}}
    \cup (IF mpc \in {"write", "move", "remove"} THEN {m_sid} ELSE {})
    \cup (IF phase \in {"rename", "unlink"} THEN {d_sid} ELSE {})

\* C11: in a session the counter never decreases and is at least the id of
\* every segment file; an id handed to a flush, a merge cycle or Drop is the
\* counter raised by one, greater than the counter before it, than every id
\* held and than the id of every segment file; at most one operation holds an
\* id at a time.
C11_IdsIncrease ==
    /\ [](phase # "down" =>
            /\ \A id \in (DOMAIN datafiles) \cup (DOMAIN segments) \cup HeldIds :
                   id <= max_segment_id
            /\ Cardinality(HeldIds) <= 1)
    /\ [][(phase # "down" /\ phase' # "down") =>
             /\ max_segment_id' >= max_segment_id
             /\ \A id \in HeldIds' \ HeldIds :
                   /\ id = max_segment_id'
                   /\ id > max_segment_id
                   /\ id \notin (DOMAIN datafiles) \cup (DOMAIN segments) \cup HeldIds]_vars

\* C11's case: a merge cycle took an id after a flush had taken one in a
\* session opened over segment files.
C11_Witness ==
    /\ mpc = "write" /\ m_sid > 2
    /\ ndrops > 0

\* C16: Drop from a state with no tree frozen. With entries in the active
\* tree, the active log is unlinked only once the segment file of a new id
\* holds those entries and the temp file is renamed away; with none, the
\* active log is unlinked and no segment file is written. After the reopen,
\* get returns the last value set of every key.
C16_CleanShutdown ==
    /\ [][(phase = "unlink" /\ phase' = "down") =>
             /\ d_sid \notin DOMAIN tmpfiles
             /\ d_sid \in DOMAIN datafiles
             /\ SubSeq(datafiles[d_sid], 1, Len(RecordsOfTree(d_tree))) = RecordsOfTree(d_tree)
             /\ d_sid \notin DOMAIN segments
             /\ active_log_id \in DOMAIN logs /\ active_log_id \notin DOMAIN logs']_vars
    /\ [][(phase = "join" /\ phase' = "down") =>
             /\ datafiles' = datafiles /\ tmpfiles' = tmpfiles
             /\ active_log_id \notin DOMAIN logs']_vars
    /\ [][(phase = "down" /\ phase' = "up" /\ ndrops > 0) =>
             \A key \in Keys : last[key] # 0 => ViewNow(key)' = Some(last[key])]_vars

\* The sum of key.len() + value.len() over the entries of a tree.
RECURSIVE TreeBytes(_)
TreeBytes(tree) ==
    IF DOMAIN tree = {} THEN 0
    ELSE LET key == Max(DOMAIN tree)
         IN  KeyLen(key) + ValLen(tree[key]) + TreeBytes(TreeRemove(tree, key))

\* C19: in every state of an open store active_size is the sum of key.len +
\* value.len over the entries of the active tree: after recovery, after every
\* set, and after every switch, where it is 0.
C19_ActiveBytes ==
    phase = "up" => active_size = TreeBytes(active_tree)

\* C12: a set whose log write fails leaves the active tree, the frozen tree
\* and active_size as they were.
C12_LogFaultNoMutation ==
    [][(fault' = "log" /\ nfaults' = nfaults + 1) =>
          /\ active_tree' = active_tree
          /\ freeze_tree' = freeze_tree
          /\ active_size' = active_size]_vars

\* C12's case: a log write has failed in a set made while the active tree
\* held entries and a tree was frozen.
C12_Witness ==
    fault = "log" /\ active_tree # EmptyTree /\ IsSome(freeze_tree)

\* C13: a set that returns an error leaves the result of get as it was, for
\* every key.
C13_FailedSetNoEffect ==
    [][(fault' \in {"log", "switch"} /\ nfaults' = nfaults + 1) =>
          \A key \in Keys : ViewNow(key)' = ViewNow(key)]_vars

\* C14: a force_switch that fails leaves the frozen tree, the log ids and the
\* log writer as they were, the writer appending to the file of
\* active_log_id.
C14_FailedSwitchNoChange ==
    [][(fault' = "switch" /\ nfaults' = nfaults + 1) =>
          /\ freeze_tree' = freeze_tree
          /\ active_log_id' = active_log_id
          /\ freeze_log_id' = freeze_log_id
          /\ log' = log
          /\ log' = active_log_id']_vars

\* C17: when a flush fails before its rename, no temp file of its id is left,
\* the Segment Set, the frozen tree and its log are as they were, and after
\* every later set that returns Ok a flush thread of the frozen tree exists.
C17_FlushRetried ==
    /\ [][(fault' = "flush" /\ nfaults' = nfaults + 1) =>
             /\ \A i \in 1..Len(tasks) :
                    InPipeline(tasks[i]) => tasks[i].sid \notin DOMAIN tmpfiles'
             /\ segments' = segments
             /\ freeze_tree' = freeze_tree /\ IsSome(freeze_tree)
             /\ Unwrap(freeze_log_id') \in DOMAIN logs']_vars
    /\ [][(nsets' = nsets + 1 /\ nfaults' = nfaults /\ IsSome(freeze_tree')) =>
             \E i \in 1..Len(tasks') : tasks'[i].tree = Unwrap(freeze_tree')]_vars

\* C18: a merge cycle that meets an I/O fault ends there, with no temp file
\* of its id and with the Segment Set and the segment files as they were; and
\* the merged file of a cycle holds every key its input files hold.
C18_MergeFaultAborts ==
    /\ [][(fault' \in {"merge_read", "merge_io"} /\ nfaults' = nfaults + 1) =>
             /\ mpc' = "tick"
             /\ m_sid \notin DOMAIN tmpfiles'
             /\ segments' = segments
             /\ datafiles' = datafiles]_vars
    /\ []((mpc = "remove" /\ m_todo = m_readers) =>
             \A id \in m_readers : \A key \in Keys :
                 Holds(datafiles[id], key) => Holds(datafiles[m_sid], key))

\* A log record that decodes: three fields, a digest of four bytes that is
\* the digest of the key and the value.
GoodRecord(record) ==
    /\ Len(record) = 3 /\ Len(record[1]) = 4
    /\ record[1] = to_le_bytes(Digest(record[2], record[3]))
GoodPrefixLen(file) ==
    Max({n \in 0..Len(file) : \A i \in 1..n : GoodRecord(file[i])})
RECURSIVE TreeOfRecords(_)
TreeOfRecords(file) ==
    IF file = <<>> THEN EmptyTree
    ELSE TreeInsert(TreeOfRecords(SubSeq(file, 1, Len(file) - 1)),
                    file[Len(file)][2], file[Len(file)][3])

\* C15: no open panics on a log; an open of a directory with logs returns
\* with the active tree replayed from the records of the active log before
\* the first one that does not decode, and with the log cut to those records.
C15_ReplayStopsAtFault ==
    /\ [](fault # "open_panic")
    /\ [][(phase = "down" /\ phase' = "up" /\ logs # <<>>) =>
            LET file == logs[active_log_id']
                n == GoodPrefixLen(file)
            IN  /\ active_tree' = TreeOfRecords(SubSeq(file, 1, n))
                /\ logs'[active_log_id'] = SubSeq(file, 1, n)]_vars

\* C15, the opens that return: the replay stopped at the first record that
\* does not decode and the log is cut there.
C15_ReturnedOpens ==
    [][(phase = "down" /\ phase' = "up" /\ logs # <<>>) =>
            LET file == logs[active_log_id']
                n == GoodPrefixLen(file)
            IN  /\ active_tree' = TreeOfRecords(SubSeq(file, 1, n))
                /\ logs'[active_log_id'] = SubSeq(file, 1, n)]_vars
C15_TornOpened == phase = "up" /\ ncrashes > 0 /\ nsets < MaxSets

\* C20: while a tree is frozen, freeze_log_id is Some and names a log file of
\* the directory; and the frozen tree is cleared by a flush thread only once
\* the segment file of its id holds the entries of the tree, the temp file
\* renamed away.
C20_FrozenLogKept ==
    /\ [](IsSome(freeze_tree) =>
             IsSome(freeze_log_id) /\ Unwrap(freeze_log_id) \in DOMAIN logs)
    /\ [][(IsSome(freeze_tree) /\ ~IsSome(freeze_tree') /\ phase' = "up") =>
             \E i \in 1..Len(tasks) :
                 /\ tasks[i].pc = "finalize"
                 /\ tasks[i].tree = Unwrap(freeze_tree)
                 /\ tasks[i].sid \in DOMAIN datafiles
                 /\ tasks[i].sid \notin DOMAIN tmpfiles
                 /\ SubSeq(datafiles[tasks[i].sid], 1, Len(RecordsOfTree(tasks[i].tree)))
                        = RecordsOfTree(tasks[i].tree)]_vars

\* The value of `key` in the segment of the greatest id among `ids` whose
\* file holds the key.
NewestValue(ids, key) ==
    ValueIn(datafiles[Max({id \in ids : Holds(datafiles[id], key)})], key)

\* C21, the set and the directory: the step that ends a compaction cycle
\* leaves the merged segment, under the id of the cycle, as the only segment
\* of the set and its file as the only segment file.
C21_OneSegmentLeft ==
    [][(mpc = "remove" /\ m_todo = {} /\ mpc' = "tick") =>
            /\ DOMAIN segments' = {m_sid}
            /\ DOMAIN datafiles' = {m_sid}]_vars

\* C21: a completed compaction cycle leaves one segment, the merged one, and
\* one segment file; a key that several input segments hold reads from the
\* merged segment as the value of the input segment of the greatest id.
C21_CompactionCoalesces ==
    /\ [][(mpc = "remove" /\ m_todo = {} /\ mpc' = "tick") =>
            /\ DOMAIN segments' = {m_sid}
            /\ DOMAIN datafiles' = {m_sid}]_vars
    /\ [][(mpc = "move" /\ mpc' = "remove") =>
            \A key \in Keys :
                (\E id \in m_readers : Holds(datafiles[id], key)) =>
                    SegmentGet(Unwrap(m_segment').index, datafiles'[m_sid], key)
                        = Some(NewestValue(m_readers, key))]_vars

\* C21, the merged file: it holds every key of the inputs with the value of
\* the input segment of the greatest id.
C21_MergedFileNewest ==
    [][(mpc = "move" /\ mpc' = "remove") =>
            \A key \in Keys :
                (\E id \in m_readers : Holds(datafiles[id], key)) =>
                    /\ Holds(datafiles'[m_sid], key)
                    /\ ValueIn(datafiles'[m_sid], key) = NewestValue(m_readers, key)]_vars

\* C22: read_record returns the pair parse_record was given, the value empty
\* or not, and returns nothing for a record whose four digest bytes are not
\* the little-endian digest of its key and value, as after the flip of one
\* bit of them.
C22_CodecRoundTrip ==
    c_pc = "decoded" =>
        /\ ~c_flipped => c_out = Some(c_in)
        /\ c_record[1] # to_le_bytes(Digest(c_record[2], c_record[3])) => c_out = None
        /\ c_flipped => c_record[1] # to_le_bytes(Digest(c_record[2], c_record[3]))
\* C22: a record of an empty value with one digest bit flipped was decoded.
C22_Witness ==
    /\ c_pc = "decoded" /\ c_flipped /\ c_in[2] = 0 /\ c_out = None
    /\ Len(c_record[1]) = 4
\* C22: the record of an empty value was decoded as it was encoded.
C22_WitnessClean == c_pc = "decoded" /\ ~c_flipped /\ c_in[2] = 0 /\ c_out = Some(c_in)

\* C23: once Drop has sent the exit signal, every flush thread finishes and
\* the merging task leaves its loop, so that the join ends; the merging task
\* starts no cycle after the signal, and leaves its loop only after it.
C23_ShutdownTerminates ==
    /\ (phase = "join") ~> (tasks = <<>> /\ mpc = "exited")
    /\ [](mpc = "exited" => exiter)
    /\ [][(exiter /\ mpc = "tick") => mpc' # "lock"]_vars
\* C23: the join has ended in a session that ran a compaction cycle.
C23_Witness ==
    phase = "join" /\ tasks = <<>> /\ mpc = "exited" /\ nmerges > 0
\* C23: the signal is sent while a cycle is in progress and a flush thread
\* waits for the mutex.
C23_SignalInCycle ==
    phase = "join" /\ mpc = "move" /\ tasks # <<>>

\* C24: the write of a compaction cycle over segment files of strictly
\* ascending keys does not fail, and the merged file holds records of a key
\* and a value, in strictly ascending key order, one for every key that an
\* input holds and for no other key, with the value of the input of the
\* greatest id that holds the key.
C24_KWayMerge ==
    [][(mpc = "write" /\ mpc' # "write") =>
            /\ mpc' = "move"
            /\ LET out == tmpfiles'[m_sid]
               IN  /\ \A i \in 1..Len(out) : Len(out[i]) = 2
                   /\ \A i, j \in 1..Len(out) : i < j => out[i][1] < out[j][1]
                   /\ {out[i][1] : i \in 1..Len(out)}
                          = {key \in Keys : \E id \in m_readers : Holds(datafiles[id], key)}
                   /\ \A i \in 1..Len(out) :
                          out[i][2] = NewestValue(m_readers, out[i][1])]_vars
\* C24: a merged file was written from three inputs, with a key that the
\* newest input lacks and two older inputs hold with different values, and a
\* key that all hold.
C24_Witness ==
    /\ mpc = "move" /\ m_readers = 1..3
    /\ ~Holds(datafiles[3], 1)
    /\ Holds(datafiles[1], 1) /\ Holds(datafiles[2], 1)
    /\ ValueIn(datafiles[1], 1) # ValueIn(datafiles[2], 1)
    /\ \A id \in 1..3 : Holds(datafiles[id], 2)
    /\ Len(tmpfiles[m_sid]) = 2

\* The records of a file (a blank line is none) are pairs of a key and a
\* value, in strictly ascending key order.
StrictlyAscending(file) ==
    LET records == SelectSeq(file, IsRecord)
    IN  /\ \A i \in 1..Len(records) : Len(records[i]) = 2
        /\ \A i, j \in 1..Len(records) : i < j => records[i][1] < records[j][1]

Switched == active_log_id' # active_log_id
TreeAtSwitch == IF Switched THEN Unwrap(freeze_tree') ELSE active_tree'

\* C26, the effect: a try_switch that does not switch changes no field of
\* the memtable; one that switches sets freeze_log_id to the active log id,
\* raises active_log_id by 1, has the file of the new id in place and the
\* writer on it, freezes every entry of the active tree and leaves it empty,
\* and Memtable::get returns for every key what it returned before the switch.
C26_SwitchEffect ==
    [][(nsets' = nsets + 1 /\ phase = "up" /\ phase' = "up") =>
            /\ ~Switched =>
                   /\ freeze_tree' = freeze_tree /\ freeze_log_id' = freeze_log_id
                   /\ log' = log /\ tasks' = tasks
            /\ Switched =>
                   /\ freeze_log_id' = Some(active_log_id)
                   /\ active_log_id' = active_log_id + 1
                   /\ active_log_id' \in DOMAIN logs' /\ log' = active_log_id'
                   /\ active_tree' = EmptyTree
                   /\ \A k \in DOMAIN active_tree : k \in DOMAIN TreeAtSwitch
                   /\ \A k \in Keys : MemtableGet(k)' = TreeGet(TreeAtSwitch, k)]_vars

\* C26, the condition, active_bytes read as the field active_size: try_switch
\* switches only when the field is above the threshold and no tree is frozen.
C26_SwitchOnCounter ==
    [][(nsets' = nsets + 1 /\ phase = "up" /\ phase' = "up" /\ Switched) =>
            active_size' > SwitchMemSize /\ ~IsSome(freeze_tree)]_vars

\* C26: try_switch switches only when the bytes of the active tree are above
\* the threshold and no tree is frozen, and changes no field otherwise; a
\* switch has the effect of C26_SwitchEffect.
C26_SwitchFrame ==
    [][(nsets' = nsets + 1 /\ phase = "up" /\ phase' = "up") =>
            /\ Switched =>
                   TreeBytes(TreeAtSwitch) > SwitchMemSize /\ ~IsSome(freeze_tree)
            /\ ~Switched =>
                   /\ freeze_tree' = freeze_tree /\ freeze_log_id' = freeze_log_id
                   /\ log' = log /\ tasks' = tasks
            /\ Switched =>
                   /\ freeze_log_id' = Some(active_log_id)
                   /\ active_log_id' = active_log_id + 1
                   /\ active_log_id' \in DOMAIN logs' /\ log' = active_log_id'
                   /\ active_tree' = EmptyTree
                   /\ \A k \in DOMAIN active_tree : k \in DOMAIN TreeAtSwitch
                   /\ \A k \in Keys : MemtableGet(k)' = TreeGet(TreeAtSwitch, k)]_vars

\* The log file `id` exists, every record of it decodes, and replaying them
\* in file order builds `tree`.
LogMirrors(id, tree) ==
    /\ id \in DOMAIN logs
    /\ GoodPrefixLen(logs[id]) = Len(logs[id])
    /\ TreeOfRecords(logs[id]) = tree

\* C27: between the operations of a running store the replay of the file of
\* active_log_id is the active tree, and while a tree is frozen the replay
\* of the file of freeze_log_id is the frozen tree.
C27_LogMirrorsMemtable ==
    phase = "up" =>
        /\ LogMirrors(active_log_id, active_tree)
        /\ IsSome(freeze_tree) =>
               /\ IsSome(freeze_log_id)
               /\ LogMirrors(Unwrap(freeze_log_id), Unwrap(freeze_tree))

\* The segment ids that a flush thread or a compaction cycle still works on.
InFlight == {tasks[i].sid : i \in 1..Len(tasks)} \cup (IF mpc = "remove" THEN {m_sid} ELSE {})

\* C28: in a running store every segment file in place whose flush has ended
\* is in the Segment Set, or the tree it was written from is still frozen:
\* the frozen tree is not cleared for a segment that does not get into the
\* set.
C28_FlushedStayReadable ==
    phase = "up" =>
        \A id \in (DOMAIN datafiles) \ InFlight :
            \/ id \in DOMAIN segments
            \/ /\ IsSome(freeze_tree) /\ Unwrap(freeze_tree) # EmptyTree
               /\ SelectSeq(datafiles[id], IsRecord) = RecordsOfTree(Unwrap(freeze_tree))

FlushHolders == {i \in 1..Len(tasks) : tasks[i].pc \in {"write", "move", "finalize", "insert"}}
MergeHolds == mpc \in {"write", "move", "remove"}

\* C30: a flush thread past its lock() and a compaction cycle past its
\* lock() never coexist, nor two such flush threads; from the snapshot of a
\* cycle to the start of its removals the Segment Set is the set of ids
\* snapshotted; and while a cycle runs no segment gets into the set.
C30_FlushMergeExclusive ==
    /\ [](phase = "up" =>
            /\ Cardinality(FlushHolders) + (IF MergeHolds THEN 1 ELSE 0) <= 1
            /\ (mpc \in {"write", "move"} \/ (mpc = "remove" /\ m_todo = m_readers)) =>
                   m_readers = DOMAIN segments)
    /\ [][(MergeHolds /\ mpc' = mpc) => DOMAIN segments' \subseteq DOMAIN segments]_vars
\* C30: a cycle is about to remove the segments it merged while a flush
\* thread waits for the mutex.
C30_Witness ==
    /\ mpc = "remove" /\ m_todo = m_readers
    /\ \E i \in 1..Len(tasks) : tasks[i].pc = "lock"

\* ---- who waits for whom. The Segment Set's lock is held inside single
\* steps only (lines 181, 195-203, 226, 234-239, 321-323, 333): its holder
\* takes no other lock before it gives it back, so no thread is found
\* waiting for it between two steps.
Foreground == <<"fg", 0>>
Merger == <<"merge", 0>>
FlushThread(i) == <<"flush", i>>
Threads == {Foreground, Merger} \cup {FlushThread(i) : i \in 1..Len(tasks)}

\* The holders of the segment-id mutex (lines 167 and 229) and of the
\* memtable's lock (line 367).
MutexHolders ==
    {FlushThread(i) : i \in FlushHolders} \cup (IF MergeHolds THEN {Merger} ELSE {})
MemtableHolders == IF mem_lock = "read" THEN {Foreground} ELSE {}

\* The threads that thread t waits for: a flush thread at lock() (line 167)
\* or at memtable.write() (line 180), the merging task at lock() (line 229),
\* and Drop at its joins (lines 396-398).
WaitsFor(t) ==
    IF t[1] = "flush"
    THEN IF tasks[t[2]].pc = "lock" /\ ~MutexFree(id_lock) THEN MutexHolders
         ELSE IF tasks[t[2]].pc = "finalize" /\ ~WriteLockFree(mem_lock)
         THEN MemtableHolders
         ELSE {}
    ELSE IF t = Merger
    THEN IF mpc = "lock" /\ ~MutexFree(id_lock) THEN MutexHolders ELSE {}
    ELSE IF phase = "join"
         THEN {FlushThread(i) : i \in 1..Len(tasks)}
              \cup (IF mpc # "exited" THEN {Merger} ELSE {})
         ELSE {}

\* The threads reached from `from` in at most n waits.
RECURSIVE WaitsForWithin(_, _)
WaitsForWithin(from, n) ==
    IF n = 0 THEN from
    ELSE WaitsForWithin(from \cup UNION {WaitsFor(t) : t \in from}, n - 1)

\* C31: no thread waits, directly or through other waiting threads, for a
\* thread that waits for it: the waits of the foreground (get, set, Drop),
\* the flush threads and the merging task for the mutex, the memtable's lock
\* and the joins never close a cycle, and a thread that waits for a lock
\* finds a holder that is not itself.
C31_NoDeadlock ==
    \A t \in Threads :
        /\ t \notin WaitsForWithin(WaitsFor(t), Cardinality(Threads))
        /\ WaitsFor(t) # {} =>
               \E u \in WaitsForWithin({t}, Cardinality(Threads)) : WaitsFor(u) = {}
\* C31: the merging task waits for the mutex held by a flush thread that
\* waits for the memtable's lock, held by a get that reads the segments.
C31_Witness ==
    /\ mem_lock = "read" /\ fpc = "segments"
    /\ mpc = "lock"
    /\ \E i \in 1..Len(tasks) : tasks[i].pc = "finalize"

C32_SwitchedAgain ==
    /\ IsSome(freeze_tree)
    /\ \E i \in 1..Len(tasks) : tasks[i].pc = "insert"
====
